---------------------------- MODULE Spec2Model ----------------------------
(***************************************************************************)
(* The export command of mcpjungle (cmd/export.go): resolution of the      *)
(* target directory and the export of tool group and mcp server            *)
(* configurations as JSON files.                                           *)
(*                                                                         *)
(* Paths and names are TLA+ strings, handled character by character the    *)
(* way the Go library functions the code calls handle them.  The file      *)
(* system is a set of directories and a map from file paths to contents.   *)
(* Every system call the code makes is one step, and may fail.             *)
(***************************************************************************)
EXTENDS Naturals, Sequences, FiniteSets

(***************************************************************************)
(* Bounds of the model.                                                    *)
(***************************************************************************)
\* invocations of the command (one after another, or interleaved)
MaxRuns == 2
\* entities one listing call returns at most
MaxEntities == 2

Runs == 1 .. MaxRuns

(***************************************************************************)
(* Program constants.                                                      *)
(***************************************************************************)
defaultExportTargetDir == ".mcpjungle"
exportMcpServersDir == "servers"
exportToolGroupsDir == "groups"

(***************************************************************************)
(* The environment of a process: os.UserHomeDir() and os.Getwd().          *)
(***************************************************************************)
HomeDir == "/home/u"
WorkDir == "/work"

(***************************************************************************)
(* Strings.                                                                *)
(***************************************************************************)
Char(s, i) == SubSeq(s, i, i)

\* strings.HasPrefix
HasPrefix(s, prefix) ==
    /\ Len(s) >= Len(prefix)
    /\ SubSeq(s, 1, Len(prefix)) = prefix

\* the elements of a path between its separators, empty ones included
RECURSIVE SplitFrom(_, _, _)
SplitFrom(s, i, cur) ==
    IF i > Len(s) THEN <<cur>>
    ELSE IF Char(s, i) = "/" THEN <<cur>> \o SplitFrom(s, i + 1, "")
    ELSE SplitFrom(s, i + 1, cur \o Char(s, i))

Split(s) == SplitFrom(s, 1, "")

RECURSIVE JoinElems(_)
JoinElems(elems) ==
    IF elems = <<>> THEN ""
    ELSE IF Len(elems) = 1 THEN elems[1]
    ELSE elems[1] \o "/" \o JoinElems(Tail(elems))

\* filepath.IsAbs
IsAbs(path) == HasPrefix(path, "/")

\* filepath.Clean's pass over the elements: "" and "." are dropped, ".."
\* removes the element before it, is dropped at the root, and is kept at
\* the start of a relative path
RECURSIVE CleanElems(_, _, _)
CleanElems(rooted, elems, out) ==
    IF elems = <<>> THEN out
    ELSE LET e == Head(elems)
             rest == Tail(elems)
         IN  IF e = "" \/ e = "." THEN CleanElems(rooted, rest, out)
             ELSE IF e = ".." THEN
                 IF out # <<>> /\ out[Len(out)] # ".."
                 THEN CleanElems(rooted, rest, SubSeq(out, 1, Len(out) - 1))
                 ELSE IF rooted THEN CleanElems(rooted, rest, out)
                 ELSE CleanElems(rooted, rest, Append(out, ".."))
             ELSE CleanElems(rooted, rest, Append(out, e))

\* filepath.Clean
Clean(path) ==
    IF path = "" THEN "."
    ELSE LET out == CleanElems(IsAbs(path), Split(path), <<>>)
         IN  IF IsAbs(path) THEN "/" \o JoinElems(out)
             ELSE IF out = <<>> THEN "." ELSE JoinElems(out)

\* filepath.Join of two elements: empty elements are ignored, the result is
\* cleaned
Join(a, b) ==
    IF a = "" /\ b = "" THEN ""
    ELSE IF a = "" THEN Clean(b)
    ELSE IF b = "" THEN Clean(a)
    ELSE Clean(a \o "/" \o b)

RECURSIVE StripTrailingSlashes(_)
StripTrailingSlashes(path) ==
    IF Len(path) > 0 /\ Char(path, Len(path)) = "/"
    THEN StripTrailingSlashes(SubSeq(path, 1, Len(path) - 1))
    ELSE path

RECURSIVE LastSlash(_, _)
LastSlash(path, i) ==
    IF i = 0 THEN 0
    ELSE IF Char(path, i) = "/" THEN i
    ELSE LastSlash(path, i - 1)

\* filepath.Base: the last element of the path, trailing separators removed;
\* "." for the empty path and "/" for a path of separators only
Base(path) ==
    IF path = "" THEN "."
    ELSE LET p == StripTrailingSlashes(path)
             q == SubSeq(p, LastSlash(p, Len(p)) + 1, Len(p))
         IN  IF q = "" THEN "/" ELSE q

\* filepath.Abs with the working directory known
Abs(path) == IF IsAbs(path) THEN Clean(path) ELSE Join(WorkDir, path)

\* the parent of a cleaned absolute path
ParentDir(path) ==
    LET i == LastSlash(path, Len(path))
    IN  IF i <= 1 THEN "/" ELSE SubSeq(path, 1, i - 1)

\* a cleaned absolute path and the directories above it, the root included
RECURSIVE Ancestors(_)
Ancestors(path) ==
    IF path = "/" THEN {"/"} ELSE {path} \cup Ancestors(ParentDir(path))

(***************************************************************************)
(* The file system: the directories, and the regular files with their      *)
(* contents.  Paths are cleaned absolute paths.                            *)
(***************************************************************************)
Exists(f, path) == path \in f.dirs \/ path \in DOMAIN f.files

\* the entries of a directory
Children(f, dir) ==
    {p \in (f.dirs \cup DOMAIN f.files) : p # "/" /\ ParentDir(p) = dir}

PutFile(f, path, data) ==
    [f EXCEPT !.files = [p \in DOMAIN f.files \cup {path} |->
                            IF p = path THEN data ELSE f.files[p]]]

\* The outcomes of os.MkdirAll(path): [f |-> file system after, ok |-> success].
\* It creates the directory and its missing ancestors and succeeds on an
\* existing directory; it fails when an element of the path is a regular
\* file, or on an I/O or permission error, possibly after creating a part of
\* the ancestors.
MkdirAll(f, path) ==
    {[f |-> [f EXCEPT !.dirs = f.dirs \cup Ancestors(path)], ok |-> TRUE] :
        x \in {y \in {0} : Ancestors(path) \cap DOMAIN f.files = {}}}
    \cup
    {[f |-> [f EXCEPT !.dirs = f.dirs \cup Ancestors(q)], ok |-> FALSE] :
        q \in {a \in Ancestors(ParentDir(path)) :
                  Ancestors(a) \cap DOMAIN f.files = {}}}

\* The outcomes of os.ReadDir(dir): [entries, ok].
ReadDir(f, dir) ==
    {[entries |-> Children(f, dir), ok |-> TRUE] : x \in {y \in {0} : dir \in f.dirs}}
    \cup {[entries |-> {}, ok |-> FALSE]}

\* (a variant of os.Mkdir that succeeds on an existing directory, as
\* os.MkdirAll does)
MkdirIdempotent(f, path) ==
    {[f |-> [f EXCEPT !.dirs = f.dirs \cup {path}], ok |-> TRUE] :
        x \in {y \in {0} : ParentDir(path) \in f.dirs /\ path \notin DOMAIN f.files}}
    \cup {[f |-> f, ok |-> FALSE]}

\* The outcomes of os.Mkdir(path): it creates one directory, and fails when
\* the path exists already, when its parent is missing, or on an I/O error.
Mkdir(f, path) ==
    {[f |-> [f EXCEPT !.dirs = f.dirs \cup {path}], ok |-> TRUE] :
        x \in {y \in {0} : ParentDir(path) \in f.dirs /\ ~Exists(f, path)}}
    \cup {[f |-> f, ok |-> FALSE]}

\* The lengths a failed write may have reached: nothing after the
\* truncation, or a part of the data.
ShortWrites(data) == {0, Len(data) \div 2}

\* whether os.WriteFile can open the file: its directory exists, and the
\* name is not that of a directory
CanOpen(f, name) == ParentDir(name) \in f.dirs /\ name \notin f.dirs

\* (a variant of os.WriteFile that opens with O_APPEND in place of O_TRUNC)
WriteFileAppend(f, name, data) ==
    {[f |-> PutFile(f, name, IF name \in DOMAIN f.files
                             THEN f.files[name] \o data ELSE data),
      ok |-> TRUE, opened |-> TRUE] : x \in {y \in {0} : CanOpen(f, name)}}
    \cup {[f |-> f, ok |-> FALSE, opened |-> FALSE]}

\* The outcomes of os.WriteFile(name, data): [f, ok, opened].  The file is
\* opened with O_WRONLY|O_CREATE|O_TRUNC, written and closed.  A failed open
\* changes nothing; a failed write leaves the file truncated, with a part of
\* the data.
WriteFile(f, name, data) ==
    {[f |-> PutFile(f, name, data), ok |-> TRUE, opened |-> TRUE] :
        x \in {y \in {0} : CanOpen(f, name)}}
    \cup
    {[f |-> PutFile(f, name, SubSeq(data, 1, n)), ok |-> FALSE, opened |-> TRUE] :
        n \in {m \in ShortWrites(data) : CanOpen(f, name)}}
    \cup {[f |-> f, ok |-> FALSE, opened |-> FALSE]}

(***************************************************************************)
(* The entities of the registry.  A listing call returns a sequence of     *)
(* them; only the Name is read by the export.                              *)
(***************************************************************************)
ToolGroups ==
    { [Name |-> "x", Description |-> "one"],
      [Name |-> "x", Description |-> "two"],
      [Name |-> "../x", Description |-> "up"],
      [Name |-> "b/c", Description |-> "nested"] }

McpServers ==
    { [Name |-> "", Description |-> "unnamed"],
      [Name |-> "a/..", Description |-> "dots"] }

Listings(entities) == UNION {[1 .. k -> entities] : k \in 0 .. MaxEntities}

\* what the registry may hold: the tool groups and the mcp servers a listing
\* operation returns when it succeeds
Registries == [groups : Listings(ToolGroups), servers : Listings(McpServers)]

\* registries of at most one entity per category
SmallRegistries ==
    [groups : {<<>>, <<[Name |-> "x", Description |-> "one"]>>},
     servers : {<<>>, <<[Name |-> "a/..", Description |-> "dots"]>>}]

\* json.MarshalIndent(entity, "", "  ")
MarshalIndent(entity) ==
    "{\n  \"name\": \"" \o entity.Name \o "\",\n  \"description\": \""
        \o entity.Description \o "\"\n}"

\* (a variant that joins the name as it is, without filepath.Base)
FileNameNoBase(entityDir, entityName) ==
    Join(entityDir, entityName \o ".json")

\* the path writeJSONConfigFile writes an entity to
FileName(entityDir, entityName) ==
    Join(entityDir, Base(entityName) \o ".json")

\* The outcomes of writeJSONConfigFile: [f, err, opened], err one of "nil",
\* "serialize" and "write".
writeJSONConfigFile(f, entityDir, entityName, entity) ==
    {[f |-> f, err |-> "serialize", opened |-> FALSE]}
    \cup
    {[f |-> o.f, err |-> IF o.ok THEN "nil" ELSE "write", opened |-> o.opened] :
        o \in WriteFile(f, FileName(entityDir, entityName), MarshalIndent(entity))}

(***************************************************************************)
(* The pure part of resolveTargetDirForExport: the default, the expansion  *)
(* of "~" and the absolute, cleaned path.  [path, err], err one of "nil",  *)
(* "home" and "abs".                                                       *)
(***************************************************************************)
ResolvePath(flag, e) ==
    LET t0 == IF flag = "" THEN defaultExportTargetDir ELSE flag
        homeErr == HasPrefix(t0, "~") /\ ~e.home
        t1 == IF t0 = "~" THEN HomeDir
              ELSE IF HasPrefix(t0, "~/") THEN Join(HomeDir, SubSeq(t0, 3, Len(t0)))
              ELSE t0
    IN  IF homeErr THEN [path |-> "", err |-> "home"]
        ELSE IF ~IsAbs(t1) /\ ~e.cwd THEN [path |-> "", err |-> "abs"]
        ELSE [path |-> Clean(Abs(t1)), err |-> "nil"]

(***************************************************************************)
(* State.  The flag, the environment and the file system are shared by     *)
(* the runs; the rest is per run of the command.                           *)
(***************************************************************************)
VARIABLES
    exportCmdTargetDir, \* the --dir flag
    registry,           \* what the remote service holds
    env,                \* [home, cwd]: whether os.UserHomeDir / os.Getwd succeed
    fs,                 \* the file system
    pc,                 \* where each run is
    targetDir,          \* resolveTargetDirForExport's result
    resolveErr,         \* resolveTargetDirForExport's error
    groups,             \* the tool groups fetched
    gErr,               \* "unset", "nil" or "err"
    servers,            \* the mcp servers fetched
    sErr,               \* "unset", "nil" or "err"
    idx,                \* the position of the range loop under way
    ret,                \* runExport's result: "none" while it runs
    calls,              \* history: the listing operations invoked, in order
    opened,             \* history: the files os.WriteFile opened
    fs0                 \* history: the file system when the run started

vars == <<exportCmdTargetDir, registry, env, fs, pc, targetDir, resolveErr, groups, gErr,
          servers, sErr, idx, ret, calls, opened, fs0>>

(***************************************************************************)
(* Initial states.                                                         *)
(***************************************************************************)
\* values of the --dir flag
TargetInputs ==
    {"", ".mcpjungle", "~", "~/x", "~/", "~foo", "out", "/t/d", "a/../b/./c"}

Environments == [home : BOOLEAN, cwd : BOOLEAN]

BaseDirs == {"/", "/work", "/home", "/home/u"}

\* what is at the target before the first run
TargetKinds == {"absent", "empty", "nonempty", "file"}

InitialFS(kind, t) ==
    CASE kind = "absent" ->
            [dirs |-> BaseDirs \ {t}, files |-> <<>>]
      [] kind = "empty" ->
            [dirs |-> BaseDirs \cup Ancestors(t), files |-> <<>>]
      [] kind = "nonempty" ->
            [dirs |-> BaseDirs \cup Ancestors(t),
             files |-> [p \in {Join(t, "test.txt")} |-> "test"]]
      [] kind = "file" ->
            [dirs |-> (BaseDirs \cup Ancestors(ParentDir(t))) \ {t},
             files |-> [p \in {t} |-> "test"]]

InitWith(flags, environments, registries) ==
    /\ exportCmdTargetDir \in flags
    /\ registry \in registries
    /\ env \in environments
    /\ \E kind \in TargetKinds :
          LET r == ResolvePath(exportCmdTargetDir, env)
          IN  fs = IF r.err = "nil" THEN InitialFS(kind, r.path)
                   ELSE [dirs |-> BaseDirs, files |-> <<>>]
    /\ pc = [r \in Runs |-> "idle"]
    /\ targetDir = [r \in Runs |-> ""]
    /\ resolveErr = [r \in Runs |-> "unset"]
    /\ groups = [r \in Runs |-> <<>>]
    /\ gErr = [r \in Runs |-> "unset"]
    /\ servers = [r \in Runs |-> <<>>]
    /\ sErr = [r \in Runs |-> "unset"]
    /\ idx = [r \in Runs |-> 0]
    /\ ret = [r \in Runs |-> "none"]
    /\ calls = [r \in Runs |-> <<>>]
    /\ opened = [r \in Runs |-> {}]
    /\ fs0 = [r \in Runs |-> [dirs |-> {}, files |-> <<>>]]

DefaultEnvironment == [home |-> TRUE, cwd |-> TRUE]

\* the command as installed: the flag has its default
Init == InitWith({defaultExportTargetDir}, {DefaultEnvironment}, Registries)

\* the same, against a registry of at most one entity per category
InitSmall == InitWith({defaultExportTargetDir}, {DefaultEnvironment}, SmallRegistries)

\* the resolver under every flag and environment
InitResolve ==
    InitWith(TargetInputs, Environments, {[groups |-> <<>>, servers |-> <<>>]})

(***************************************************************************)
(* resolveTargetDirForExport                                               *)
(***************************************************************************)
\* lines 50-75: the path is computed
Begin(r) ==
    /\ pc[r] = "idle"
    /\ \A q \in Runs : q < r => pc[q] # "idle"
    /\ fs0' = [fs0 EXCEPT ![r] = fs]
    /\ LET p == ResolvePath(exportCmdTargetDir, env)
       IN  IF p.err # "nil"
           THEN /\ resolveErr' = [resolveErr EXCEPT ![r] = p.err]
                /\ pc' = [pc EXCEPT ![r] = "resolved"]
                /\ UNCHANGED targetDir
           ELSE /\ targetDir' = [targetDir EXCEPT ![r] = p.path]
                /\ pc' = [pc EXCEPT ![r] = "mkdirall"]
                /\ UNCHANGED resolveErr
    /\ UNCHANGED <<exportCmdTargetDir, registry, env, fs, groups, gErr, servers, sErr,
                   idx, ret, calls, opened>>

\* lines 77-80: os.MkdirAll(targetDir, 0o755)
ResolveMkdirAll(r) ==
    /\ pc[r] = "mkdirall"
    /\ \E o \in MkdirAll(fs, targetDir[r]) :
          /\ fs' = o.f
          /\ IF o.ok
             THEN /\ pc' = [pc EXCEPT ![r] = "readdir"]
                  /\ UNCHANGED <<resolveErr, targetDir>>
             ELSE /\ pc' = [pc EXCEPT ![r] = "resolved"]
                  /\ resolveErr' = [resolveErr EXCEPT ![r] = "mkdirall"]
                  /\ targetDir' = [targetDir EXCEPT ![r] = ""]
    /\ UNCHANGED <<exportCmdTargetDir, registry, env, groups, gErr, servers, sErr, idx,
                   ret, calls, opened, fs0>>

\* line 87: whether the target is refused for the entries it holds
\* (a variant without the check)
NotEmptyNever(entries) == FALSE

NotEmpty(entries) == Cardinality(entries) > 0

\* lines 82-91: os.ReadDir(targetDir) and the emptiness check
ResolveReadDir(r) ==
    /\ pc[r] = "readdir"
    /\ \E o \in ReadDir(fs, targetDir[r]) :
          LET err == IF ~o.ok THEN "readdir"
                     ELSE IF NotEmpty(o.entries) THEN "not_empty"
                     ELSE "nil"
          IN  /\ resolveErr' = [resolveErr EXCEPT ![r] = err]
              /\ targetDir' = [targetDir EXCEPT ![r] = IF err = "nil" THEN @ ELSE ""]
    /\ pc' = [pc EXCEPT ![r] = "resolved"]
    /\ UNCHANGED <<exportCmdTargetDir, registry, env, fs, groups, gErr, servers, sErr,
                   idx, ret, calls, opened, fs0>>

(***************************************************************************)
(* runExport                                                               *)
(***************************************************************************)
groupsDir(r) == Join(targetDir[r], exportToolGroupsDir)
serversDir(r) == Join(targetDir[r], exportMcpServersDir)

\* what a listing operation of the api client returns: an error, or the
\* entities of the registry
ListingResults(list) ==
    {[ok |-> FALSE, list |-> <<>>], [ok |-> TRUE, list |-> list]}

\* lines 107-112: a resolution error ends the run
\* (a variant that goes on after an error)
ResolvedIgnoringError(err) == "mkdir_groups"

Resolved(err) == IF err # "nil" THEN "done" ELSE "mkdir_groups"

ExportResolved(r) ==
    /\ pc[r] = "resolved"
    /\ pc' = [pc EXCEPT ![r] = Resolved(resolveErr[r])]
    /\ ret' = [ret EXCEPT ![r] = IF pc'[r] = "done" THEN "resolve" ELSE @]
    /\ UNCHANGED <<exportCmdTargetDir, registry, env, fs, targetDir, resolveErr, groups,
                   gErr, servers, sErr, idx, calls, opened, fs0>>

\* lines 114-117: os.Mkdir(groupsDir, 0o755)
ExportMkdirGroups(r) ==
    /\ pc[r] = "mkdir_groups"
    /\ \E o \in Mkdir(fs, groupsDir(r)) :
          /\ fs' = o.f
          /\ pc' = [pc EXCEPT ![r] = IF o.ok THEN "mkdir_servers" ELSE "done"]
          /\ ret' = [ret EXCEPT ![r] = IF o.ok THEN @ ELSE "groups_dir"]
    /\ UNCHANGED <<exportCmdTargetDir, registry, env, targetDir, resolveErr, groups, gErr,
                   servers, sErr, idx, calls, opened, fs0>>

\* lines 118-121: os.Mkdir(serversDir, 0o755)
ExportMkdirServers(r) ==
    /\ pc[r] = "mkdir_servers"
    /\ \E o \in Mkdir(fs, serversDir(r)) :
          /\ fs' = o.f
          /\ pc' = [pc EXCEPT ![r] = IF o.ok THEN "fetch_groups" ELSE "done"]
          /\ ret' = [ret EXCEPT ![r] = IF o.ok THEN @ ELSE "servers_dir"]
    /\ UNCHANGED <<exportCmdTargetDir, registry, env, targetDir, resolveErr, groups, gErr,
                   servers, sErr, idx, calls, opened, fs0>>

\* lines 126-140 and 145-159: where the run goes after a listing call.  A
\* failed call is a warning, and an empty listing a message; both go on to
\* what follows the category.
\* (a variant that returns the error of a failed call)
FetchedFatal(ok, n, write, after) ==
    IF ~ok THEN "done" ELSE IF n = 0 THEN after ELSE write

Fetched(ok, n, write, after) ==
    IF ~ok THEN after ELSE IF n = 0 THEN after ELSE write

\* lines 134-138 and 153-157: where the run goes after writing entity i of n.
\* An error is returned at once.
\* (variants: one drops the error, one leaves the loop an entity early)
WrittenIgnoringError(err, i, n, write, after) ==
    IF i < n THEN write ELSE after

WrittenSkippingLast(err, i, n, write, after) ==
    IF err # "nil" THEN "done" ELSE IF i + 1 < n THEN write ELSE after

Written(err, i, n, write, after) ==
    IF err # "nil" THEN "done" ELSE IF i < n THEN write ELSE after

\* lines 123-133: apiClient.GetToolGroupConfigs()
FetchToolGroups(r) ==
    /\ pc[r] = "fetch_groups"
    /\ \E res \in ListingResults(registry.groups) :
          /\ calls' = [calls EXCEPT ![r] = Append(@, "GetToolGroupConfigs")]
          /\ gErr' = [gErr EXCEPT ![r] = IF res.ok THEN "nil" ELSE "err"]
          /\ groups' = [groups EXCEPT ![r] = res.list]
          /\ pc' = [pc EXCEPT ![r] =
                       Fetched(res.ok, Len(res.list), "write_groups", "fetch_servers")]
    /\ idx' = [idx EXCEPT ![r] = 1]
    /\ ret' = [ret EXCEPT ![r] = IF pc'[r] = "done" THEN "listing" ELSE @]
    /\ UNCHANGED <<exportCmdTargetDir, registry, env, fs, targetDir, resolveErr, servers,
                   sErr, opened, fs0>>

\* lines 134-138: one iteration of the loop over the tool groups
WriteToolGroup(r) ==
    /\ pc[r] = "write_groups"
    /\ LET g == groups[r][idx[r]]
       IN  \E o \in writeJSONConfigFile(fs, groupsDir(r), g.Name, g) :
              /\ fs' = o.f
              /\ opened' = [opened EXCEPT ![r] =
                               IF o.opened THEN @ \cup {FileName(groupsDir(r), g.Name)}
                               ELSE @]
              /\ pc' = [pc EXCEPT ![r] =
                           Written(o.err, idx[r], Len(groups[r]),
                                   "write_groups", "fetch_servers")]
              /\ ret' = [ret EXCEPT ![r] = IF o.err # "nil" THEN o.err ELSE @]
    /\ idx' = [idx EXCEPT ![r] = IF pc'[r] = "write_groups" THEN @ + 1 ELSE @]
    /\ UNCHANGED <<exportCmdTargetDir, registry, env, targetDir, resolveErr, groups, gErr,
                   servers, sErr, calls, fs0>>

\* lines 142-152: apiClient.GetServerConfigs()
FetchServers(r) ==
    /\ pc[r] = "fetch_servers"
    /\ \E res \in ListingResults(registry.servers) :
          /\ calls' = [calls EXCEPT ![r] = Append(@, "GetServerConfigs")]
          /\ sErr' = [sErr EXCEPT ![r] = IF res.ok THEN "nil" ELSE "err"]
          /\ servers' = [servers EXCEPT ![r] = res.list]
          /\ pc' = [pc EXCEPT ![r] =
                       Fetched(res.ok, Len(res.list), "write_servers", "complete")]
    /\ idx' = [idx EXCEPT ![r] = 1]
    /\ ret' = [ret EXCEPT ![r] = IF pc'[r] = "done" THEN "listing" ELSE @]
    /\ UNCHANGED <<exportCmdTargetDir, registry, env, fs, targetDir, resolveErr, groups,
                   gErr, opened, fs0>>

\* lines 153-157: one iteration of the loop over the mcp servers
WriteServer(r) ==
    /\ pc[r] = "write_servers"
    /\ LET s == servers[r][idx[r]]
       IN  \E o \in writeJSONConfigFile(fs, serversDir(r), s.Name, s) :
              /\ fs' = o.f
              /\ opened' = [opened EXCEPT ![r] =
                               IF o.opened THEN @ \cup {FileName(serversDir(r), s.Name)}
                               ELSE @]
              /\ pc' = [pc EXCEPT ![r] =
                           Written(o.err, idx[r], Len(servers[r]),
                                   "write_servers", "complete")]
              /\ ret' = [ret EXCEPT ![r] = IF o.err # "nil" THEN o.err ELSE @]
    /\ idx' = [idx EXCEPT ![r] = IF pc'[r] = "write_servers" THEN @ + 1 ELSE @]
    /\ UNCHANGED <<exportCmdTargetDir, registry, env, targetDir, resolveErr, groups, gErr,
                   servers, sErr, calls, fs0>>

\* lines 161-163: "Export complete!", return nil
ExportComplete(r) ==
    /\ pc[r] = "complete"
    /\ pc' = [pc EXCEPT ![r] = "done"]
    /\ ret' = [ret EXCEPT ![r] = "nil"]
    /\ UNCHANGED <<exportCmdTargetDir, registry, env, fs, targetDir, resolveErr, groups,
                   gErr, servers, sErr, idx, calls, opened, fs0>>

(***************************************************************************)
(* Specifications.                                                         *)
(***************************************************************************)
\* the command is run
StartRun(r) ==
    /\ r = 1
    /\ Begin(r)

\* the command is run again, after the runs before it
StartNextRun(r) ==
    /\ \A q \in Runs : pc[q] \in {"idle", "done"}
    /\ Begin(r)

\* the command is run, whatever the other runs are doing
StartConcurrentRun(r) == Begin(r)

\* resolveTargetDirForExport is called alone, after the calls before it
StartResolve(r) ==
    /\ \A q \in Runs : pc[q] \in {"idle", "resolved"}
    /\ Begin(r)

Export(r) ==
    \/ ResolveMkdirAll(r)
    \/ ResolveReadDir(r)
    \/ ExportResolved(r)
    \/ ExportMkdirGroups(r)
    \/ ExportMkdirServers(r)
    \/ FetchToolGroups(r)
    \/ WriteToolGroup(r)
    \/ FetchServers(r)
    \/ WriteServer(r)
    \/ ExportComplete(r)

\* one run of the command
Next == \E r \in Runs : StartRun(r) \/ Export(r)

Spec == Init /\ [][Next]_vars

\* runs of the command one after another
NextRepeat == \E r \in Runs : StartNextRun(r) \/ Export(r)

SpecRepeat == InitSmall /\ [][NextRepeat]_vars

\* runs of the command interleaved at their system calls
NextConcurrent == \E r \in Runs : StartConcurrentRun(r) \/ Export(r)

SpecConcurrent == InitSmall /\ [][NextConcurrent]_vars

\* calls of resolveTargetDirForExport one after another
NextResolve ==
    \E r \in Runs : StartResolve(r) \/ ResolveMkdirAll(r) \/ ResolveReadDir(r)

SpecResolve == InitResolve /\ [][NextResolve]_vars
(***************************************************************************)
(* Properties.                                                             *)
(***************************************************************************)
Done(r) == pc[r] = "done"

\* the path <dir>/<basename(name)>.json, written out
ConfigPath(dir, name) == dir \o "/" \o Base(name) \o ".json"

ConfigPaths(dir, list) == {ConfigPath(dir, list[i].Name) : i \in DOMAIN list}

\* the directory every run resolves to, when the path can be computed
Target == ResolvePath(exportCmdTargetDir, env).path

GroupsPath(r) == targetDir[r] \o "/groups"
ServersPath(r) == targetDir[r] \o "/servers"

\* the run has created the groups subdirectory
PastGroupsMkdir(r) ==
    /\ resolveErr[r] = "nil"
    /\ pc[r] \notin {"idle", "mkdirall", "readdir", "resolved", "mkdir_groups"}
    /\ ret[r] # "groups_dir"

\* the run has created both subdirectories
PastSubdirs(r) ==
    /\ PastGroupsMkdir(r)
    /\ pc[r] # "mkdir_servers"
    /\ ret[r] # "servers_dir"

\* C1: a failed listing operation is never fatal.  The category whose
\* listing failed has no file under its subdirectory; the other listing is
\* still invoked and its entities are written; and a run that created both
\* subdirectories and in which no writeJSONConfigFile call failed returns nil,
\* whatever the listings returned.
C1_ListingFailureNotFatal ==
    \A r \in Runs :
        /\ ret[r] # "listing"
        /\ gErr[r] = "err" =>
              /\ Children(fs, GroupsPath(r)) = {}
              /\ pc[r] \in {"fetch_servers", "write_servers", "complete", "done"}
              /\ pc[r] # "fetch_servers" =>
                    calls[r] = <<"GetToolGroupConfigs", "GetServerConfigs">>
        /\ sErr[r] = "err" =>
              /\ Children(fs, ServersPath(r)) = {}
              /\ pc[r] \in {"complete", "done"}
              /\ Done(r) => ret[r] = "nil"
        /\ (Done(r) /\ PastSubdirs(r) /\ ret[r] \notin {"serialize", "write"}) =>
              /\ ret[r] = "nil"
              /\ Len(calls[r]) = 2
              /\ Children(fs, GroupsPath(r)) =
                    IF gErr[r] = "err" THEN {}
                    ELSE ConfigPaths(GroupsPath(r), groups[r])
              /\ Children(fs, ServersPath(r)) =
                    IF sErr[r] = "err" THEN {}
                    ELSE ConfigPaths(ServersPath(r), servers[r])

\* the tool group listing failed, the server listing returned two entities of
\* different basenames, and the run succeeded with the two server files
C1_Witness ==
    \E r \in Runs :
        /\ Done(r) /\ ret[r] = "nil"
        /\ gErr[r] = "err" /\ sErr[r] = "nil"
        /\ Len(servers[r]) = 2
        /\ Cardinality(Children(fs, ServersPath(r))) = 2
        /\ Children(fs, GroupsPath(r)) = {}

\* C5: a listing operation is invoked only after the target is resolved and
\* both subdirectories are created, groups first.  A run that fails at
\* resolution, or at the creation of a subdirectory, has invoked no listing
\* operation and written no config file; one that fails at resolution has
\* created no subdirectory.
C5_PhasesInOrder ==
    \A r \in Runs :
        /\ calls[r] # <<>> =>
              /\ resolveErr[r] = "nil"
              /\ GroupsPath(r) \in fs.dirs
              /\ ServersPath(r) \in fs.dirs
        /\ pc[r] = "mkdir_servers" =>
              GroupsPath(r) \in fs.dirs /\ ServersPath(r) \notin fs.dirs
        /\ pc[r] = "mkdir_groups" =>
              /\ resolveErr[r] = "nil"
              /\ Children(fs, targetDir[r]) = {}
        /\ ret[r] \in {"resolve", "groups_dir", "servers_dir"} =>
              /\ Done(r)
              /\ calls[r] = <<>>
              /\ opened[r] = {}
              /\ fs.files = fs0[r].files
        /\ ret[r] = "resolve" =>
              /\ resolveErr[r] \notin {"nil", "unset"}
              /\ fs.dirs \ fs0[r].dirs \subseteq Ancestors(Target)
        /\ ret[r] = "groups_dir" =>
              fs.dirs \ fs0[r].dirs \subseteq Ancestors(Target)
        /\ ret[r] = "servers_dir" =>
              fs.dirs \ fs0[r].dirs \subseteq Ancestors(Target) \cup {GroupsPath(r)}

\* the creation of the servers subdirectory failed after that of groups
C5_Witness ==
    \E r \in Runs :
        /\ Done(r) /\ ret[r] = "servers_dir"
        /\ GroupsPath(r) \in fs.dirs
        /\ registry.groups # <<>>
        /\ calls[r] = <<>>

\* C6: when runExport returns nil, the target holds the two subdirectories
\* and nothing else, and each subdirectory holds exactly the files
\* <basename(Name)>.json of the entities its listing returned: none when the
\* listing failed or returned no entity.
C6_SuccessfulResult ==
    \A r \in Runs :
        (Done(r) /\ ret[r] = "nil") =>
            /\ targetDir[r] \in fs.dirs
            /\ Children(fs, targetDir[r]) = {GroupsPath(r), ServersPath(r)}
            /\ {GroupsPath(r), ServersPath(r)} \subseteq fs.dirs
            /\ Children(fs, GroupsPath(r)) =
                  IF gErr[r] = "nil" THEN ConfigPaths(GroupsPath(r), groups[r]) ELSE {}
            /\ Children(fs, ServersPath(r)) =
                  IF sErr[r] = "nil" THEN ConfigPaths(ServersPath(r), servers[r]) ELSE {}
            /\ Children(fs, GroupsPath(r)) \cup Children(fs, ServersPath(r))
                  \subseteq DOMAIN fs.files
            /\ (gErr[r] = "nil" /\ groups[r] = <<>> /\ sErr[r] = "nil" /\ servers[r] = <<>>)
                  => DOMAIN fs.files = DOMAIN fs0[r].files

\* a successful run that wrote two files in each subdirectory
C6_Witness ==
    \E r \in Runs :
        /\ Done(r) /\ ret[r] = "nil"
        /\ Cardinality(Children(fs, GroupsPath(r))) = 2
        /\ Cardinality(Children(fs, ServersPath(r))) = 2

\* the last position of a listing whose entity has the basename of entity i
LastOfBasename(list, i) ==
    CHOOSE j \in DOMAIN list :
        /\ Base(list[j].Name) = Base(list[i].Name)
        /\ \A k \in DOMAIN list : Base(list[k].Name) = Base(list[i].Name) => k <= j

\* the files of a category after a run without error
LastWriterWins(dir, list) ==
    /\ \A i \in DOMAIN list :
          /\ ConfigPath(dir, list[i].Name) \in DOMAIN fs.files
          /\ fs.files[ConfigPath(dir, list[i].Name)] =
                MarshalIndent(list[LastOfBasename(list, i)])
    /\ Cardinality(Children(fs, dir)) =
          Cardinality({Base(list[i].Name) : i \in DOMAIN list})

\* the write of the entity at hand can succeed, and then the file holds the
\* serialization of that entity
CanWrite(dir, path, entity) ==
    \E o \in writeJSONConfigFile(fs, dir, entity.Name, entity) :
        /\ o.err = "nil"
        /\ path \in DOMAIN o.f.files
        /\ o.f.files[path] = MarshalIndent(entity)

WriteCanSucceed(r) ==
    \/ /\ pc[r] = "write_groups"
       /\ CanWrite(groupsDir(r), ConfigPath(GroupsPath(r), groups[r][idx[r]].Name),
                   groups[r][idx[r]])
    \/ /\ pc[r] = "write_servers"
       /\ CanWrite(serversDir(r), ConfigPath(ServersPath(r), servers[r][idx[r]].Name),
                   servers[r][idx[r]])

\* C7: entities of one listing with the same basename are written to the same
\* file, the later over the earlier, and the collision is no error: the write
\* of an entity can succeed whatever was written before it, and after a run
\* without error the file of each basename holds the serialization of the last
\* entity of that basename, and the subdirectory holds one file per basename.
C7_LastWriterWins ==
    \A r \in Runs :
        /\ pc[r] \in {"write_groups", "write_servers"} => WriteCanSucceed(r)
        /\ (Done(r) /\ ret[r] = "nil" /\ gErr[r] = "nil") =>
              LastWriterWins(GroupsPath(r), groups[r])
        /\ (Done(r) /\ ret[r] = "nil" /\ sErr[r] = "nil") =>
              LastWriterWins(ServersPath(r), servers[r])

\* a successful run over two tool groups of different names and the same
\* basename: one file, holding the second
C7_Witness ==
    \E r \in Runs :
        /\ Done(r) /\ ret[r] = "nil" /\ gErr[r] = "nil"
        /\ Len(groups[r]) = 2
        /\ groups[r][1].Name # groups[r][2].Name
        /\ Children(fs, GroupsPath(r)) = {GroupsPath(r) \o "/x.json"}
        /\ fs.files[GroupsPath(r) \o "/x.json"] = MarshalIndent(groups[r][2])
        /\ fs.files[GroupsPath(r) \o "/x.json"] # MarshalIndent(groups[r][1])

\* C9: every file a run opens for writing is a direct child of the groups or
\* the servers subdirectory of its target, whatever the names of the entities;
\* the run creates no file elsewhere, and no directory but the target, its
\* ancestors and the two subdirectories.
C9_WritesConfined ==
    \A r \in Runs :
        /\ \A p \in opened[r] : ParentDir(p) \in {GroupsPath(r), ServersPath(r)}
        /\ pc[r] # "idle" =>
              /\ \A p \in DOMAIN fs.files \ DOMAIN fs0[r].files :
                    ParentDir(p) \in {GroupsPath(r), ServersPath(r)}
              /\ \A p \in DOMAIN fs0[r].files :
                    p \in DOMAIN fs.files /\ fs.files[p] = fs0[r].files[p]
              /\ fs.dirs \ fs0[r].dirs \subseteq
                    Ancestors(Target) \cup {Target \o "/groups", Target \o "/servers"}

\* a run has written tool groups and servers whose names are empty, hold a
\* separator or hold ".."
C9_Witness ==
    \E r \in Runs :
        /\ Done(r) /\ ret[r] = "nil"
        /\ \E i \in DOMAIN groups[r] : groups[r][i].Name = "../x"
        /\ \E i \in DOMAIN servers[r] : servers[r][i].Name = ""
        /\ \E i \in DOMAIN servers[r] : servers[r][i].Name = "a/.."
        /\ Cardinality(opened[r]) = 3

\* the step in which a writeJSONConfigFile call of run r fails
WriteFails(r) == ret[r] = "none" /\ ret'[r] \in {"serialize", "write"}

\* the category under way, and the path of the entity at hand
CurrentList(r) == IF pc[r] = "write_groups" THEN groups[r] ELSE servers[r]
CurrentDir(r) == IF pc[r] = "write_groups" THEN GroupsPath(r) ELSE ServersPath(r)
CurrentPath(r) == ConfigPath(CurrentDir(r), CurrentList(r)[idx[r]].Name)

\* what the first failed write ends, whatever it leaves on disk: the run
\* returns the error, no further entity is written and no later category is
\* fetched
AbortsAtOnce(r) ==
    /\ pc'[r] = "done"
    /\ calls'[r] = calls[r]
    /\ sErr'[r] = sErr[r]
    /\ pc[r] = "write_groups" =>
          /\ calls[r] = <<"GetToolGroupConfigs">>
          /\ sErr[r] = "unset"
          /\ Children(fs', ServersPath(r)) = {}
    /\ opened'[r] \subseteq
          ConfigPaths(CurrentDir(r), SubSeq(CurrentList(r), 1, idx[r]))
             \cup (IF pc[r] = "write_servers"
                   THEN ConfigPaths(GroupsPath(r), groups[r]) ELSE {})
    /\ fs'.dirs = fs.dirs

\* C2 as claimed: the first serialization or write failure aborts the export at
\* once, and every file written before the failure is left on disk unchanged.
C2_FilesBeforeFailureUnchanged ==
    [][\A r \in Runs :
          WriteFails(r) =>
              /\ AbortsAtOnce(r)
              /\ \A p \in opened[r] :
                    p \in DOMAIN fs'.files /\ fs'.files[p] = fs.files[p]]_vars

\* C2, amended: the first serialization or write failure aborts the export at
\* once; every file written before the failure is left on disk, and unchanged
\* but for the file at the path of the failing entity, which a failed write may
\* have created or truncated, also when an earlier entity of the same basename
\* was written there.
C2_AbortKeepsOtherFiles ==
    [][\A r \in Runs :
          /\ WriteFails(r) =>
                /\ AbortsAtOnce(r)
                /\ \A p \in DOMAIN fs.files :
                      /\ p \in DOMAIN fs'.files
                      /\ p # CurrentPath(r) => fs'.files[p] = fs.files[p]
                /\ DOMAIN fs'.files \subseteq DOMAIN fs.files \cup {CurrentPath(r)}
                /\ ret'[r] = "serialize" => fs' = fs
          /\ Done(r) =>
                /\ pc'[r] = "done" /\ ret'[r] = ret[r]
                /\ calls'[r] = calls[r] /\ opened'[r] = opened[r]]_vars

\* the write of the second of two tool groups of the same basename failed, and
\* the file the first was written to no longer holds it
C2_Witness ==
    \E r \in Runs :
        /\ Done(r) /\ ret[r] = "write"
        /\ sErr[r] = "unset" /\ calls[r] = <<"GetToolGroupConfigs">>
        /\ idx[r] = 2
        /\ Base(groups[r][1].Name) = Base(groups[r][2].Name)
        /\ ConfigPath(GroupsPath(r), groups[r][1].Name) \in DOMAIN fs.files
        /\ fs.files[ConfigPath(GroupsPath(r), groups[r][1].Name)]
              # MarshalIndent(groups[r][1])

\* the target of the call existed with at least one entry when the call began
PreExistingNonEmpty(r) ==
    /\ ResolvePath(exportCmdTargetDir, env).err = "nil"
    /\ Target \in fs0[r].dirs
    /\ Children(fs0[r], Target) # {}

\* a successful resolution returns a directory that exists and is empty
ReturnsEmptyDir(r) ==
    (pc[r] = "resolved" /\ resolveErr[r] = "nil") =>
        /\ targetDir[r] = Target
        /\ targetDir[r] \in fs.dirs
        /\ Children(fs, targetDir[r]) = {}

\* C3 as claimed: a successful resolution returns an existing, empty directory,
\* and the resolution of a directory that exists with at least one entry fails
\* with the not-empty error and leaves the file system as it was.
C3_NonEmptyGivesNotEmptyError ==
    \A r \in Runs :
        /\ ReturnsEmptyDir(r)
        /\ (pc[r] = "resolved" /\ PreExistingNonEmpty(r)) =>
              /\ resolveErr[r] = "not_empty"
              /\ fs = fs0[r]

\* C3, amended: a successful resolution returns an existing, empty directory,
\* and the resolution of a directory that exists with at least one entry fails
\* and leaves the file system as it was; the error is the not-empty error
\* unless os.MkdirAll or os.ReadDir itself fails, and then it is that error.
C3_NonEmptyAlwaysFails ==
    \A r \in Runs :
        /\ ReturnsEmptyDir(r)
        /\ (pc[r] = "resolved" /\ PreExistingNonEmpty(r)) =>
              /\ resolveErr[r] \in {"not_empty", "mkdirall", "readdir"}
              /\ targetDir[r] = ""
              /\ fs = fs0[r]
        /\ resolveErr[r] = "not_empty" => PreExistingNonEmpty(r)

\* a call against a directory holding a file has returned the not-empty error
C3_Witness ==
    \E r \in Runs :
        /\ pc[r] = "resolved"
        /\ resolveErr[r] = "not_empty"
        /\ Children(fs, Target) \cap DOMAIN fs.files # {}
        /\ fs = fs0[r]

\* the value of the flag, the default in place of the empty one
FlagOrDefault ==
    IF exportCmdTargetDir = "" THEN defaultExportTargetDir ELSE exportCmdTargetDir

\* the flag asks for an expansion: it is "~" or starts with "~/"
ExpansionRequested == FlagOrDefault = "~" \/ HasPrefix(FlagOrDefault, "~/")

\* C4 as claimed: "~" resolves to the home directory and "~/rest" to the home
\* directory joined with the rest; every other flag, "~foo" included, is
\* resolved as it is; and the resolution fails with the home error only when
\* the home directory cannot be determined and an expansion is requested.
C4_HomeErrorOnlyOnExpansion ==
    \A r \in Runs :
        /\ pc[r] \in {"mkdirall", "readdir"} =>
              targetDir[r] =
                 IF FlagOrDefault = "~" THEN HomeDir
                 ELSE IF HasPrefix(FlagOrDefault, "~/")
                      THEN Clean(HomeDir \o "/" \o SubSeq(FlagOrDefault, 3, Len(FlagOrDefault)))
                 ELSE IF IsAbs(FlagOrDefault) THEN Clean(FlagOrDefault)
                 ELSE Clean(WorkDir \o "/" \o FlagOrDefault)
        /\ resolveErr[r] = "home" => (~env.home /\ ExpansionRequested)
        /\ (pc[r] # "idle" /\ ~env.home /\ ExpansionRequested) => resolveErr[r] = "home"

\* a later run of the command, r2 after r1, has returned from the resolution
LaterResolved(r1, r2) == r1 < r2 /\ pc[r2] \in {"resolved", "done"}

\* C8 as claimed: after a run that got past the resolution of the target,
\* every later run fails at resolution with the not-empty error and changes
\* nothing.
C8_NoRunAfterResolvedRun ==
    \A r1, r2 \in Runs :
        (resolveErr[r1] = "nil" /\ LaterResolved(r1, r2)) =>
            /\ resolveErr[r2] = "not_empty"
            /\ fs = fs0[r2]

\* C8, amended: after a run that created the groups subdirectory, whether it
\* then succeeded or aborted, and whatever the listings returned, every later
\* run fails at resolution (with the not-empty error unless os.MkdirAll or
\* os.ReadDir itself fails) and changes nothing; hence every config file is
\* written by one run at most.  A run that failed to create the groups
\* subdirectory leaves the target empty for a later run.
C8_NoRunAfterSubdirectory ==
    \A r1, r2 \in Runs :
        /\ (PastGroupsMkdir(r1) /\ LaterResolved(r1, r2)) =>
              /\ resolveErr[r2] \in {"not_empty", "mkdirall", "readdir"}
              /\ Done(r2) => ret[r2] = "resolve"
              /\ calls[r2] = <<>>
              /\ opened[r2] = {}
              /\ fs = fs0[r2]
        /\ (PastGroupsMkdir(r1) /\ r1 < r2 /\ pc[r2] = "readdir") =>
              Children(fs, targetDir[r2]) # {}
        /\ r1 # r2 => (opened[r1] = {} \/ opened[r2] = {})

\* a run wrote a config file, and a later run failed with the not-empty error
C8_Witness ==
    \E r1, r2 \in Runs :
        /\ r1 < r2
        /\ Done(r1) /\ opened[r1] # {}
        /\ Done(r2) /\ resolveErr[r2] = "not_empty" /\ ret[r2] = "resolve"
        /\ fs = fs0[r2]

\* C10: of the runs interleaved against one target, one at most creates the
\* groups subdirectory, so one at most invokes a listing operation or writes
\* a file, and every file that appears was written by that run.
C10_OneRunExports ==
    /\ Cardinality({r \in Runs : PastGroupsMkdir(r)}) <= 1
    /\ Cardinality({r \in Runs : calls[r] # <<>>}) <= 1
    /\ Cardinality({r \in Runs : opened[r] # {}}) <= 1
    /\ \A r \in Runs : (calls[r] # <<>> \/ opened[r] # {}) => PastGroupsMkdir(r)
    /\ pc[1] # "idle" =>
          \A p \in DOMAIN fs.files \ DOMAIN fs0[1].files :
              \E r \in Runs : p \in opened[r]

\* two runs passed the emptiness check; one failed to create the groups
\* subdirectory, the other wrote a file
C10_Witness ==
    \E r1, r2 \in Runs :
        /\ r1 # r2
        /\ resolveErr[r1] = "nil" /\ resolveErr[r2] = "nil"
        /\ Done(r1) /\ ret[r1] = "groups_dir"
        /\ opened[r2] # {}
        /\ GroupsPath(r1) = GroupsPath(r2)

=============================================================================
